---- MODULE Spec2Model ----
(***************************************************************************)
(* Model of the lesson-plan generation core of Agent-teacher:              *)
(*   ai/utils.py          clean_invalid_json_chars, normalize_ai_response, *)
(*                        SCHEMA, generate_lesson_plan, sanitize_text      *)
(*   lesson_plan/views.py generate_and_save_lesson_plan                    *)
(*                                                                         *)
(* Python text is modelled by TLA+ strings, one character per code point.  *)
(* Two code points cannot be written inside a TLA+ string literal and are  *)
(* written by stand-ins that occur nowhere else in the model:              *)
(*   "~"  stands for U+0060 (the backtick),                                *)
(*   "#"  stands for U+FEFF (the byte-order mark).                         *)
(***************************************************************************)
EXTENDS Integers, Sequences, FiniteSets, TLC

BT == "~"
BOM == "#"
FENCE == BT \o BT \o BT
JSONFENCE == FENCE \o "json"

\* ------------------------------------------------------------------------
\* Python str primitives
\* ------------------------------------------------------------------------

\* the character of s at position i (1-based), "" outside s
At(s, i) == IF i >= 1 /\ i <= Len(s) THEN SubSeq(s, i, i) ELSE ""

\* Python's s[a-1:b] for 1 <= a: the characters of s at positions a..b that exist
Slice(s, a, b) ==
    IF a > Len(s) \/ b < a THEN "" ELSE SubSeq(s, a, IF b > Len(s) THEN Len(s) ELSE b)

\* the whitespace str.strip() removes and the regex class \s matches
IsSpace(c) == c \in {" ", "\n", "\t"}

\* the least position of the set S of positions, 0 if S is empty
First(S) == IF S = {} THEN 0 ELSE CHOOSE i \in S : \A j \in S : i <= j

\* the greatest position of the set S of positions, 0 if S is empty
Last(S) == IF S = {} THEN 0 ELSE CHOOSE i \in S : \A j \in S : i >= j

RECURSIVE Concat(_, _, _)
\* f[lo] \o ... \o f[hi], by halves to keep the evaluation shallow
Concat(lo, hi, f) ==
    IF lo > hi THEN ""
    ELSE IF lo = hi THEN f[lo]
    ELSE LET m == (lo + hi) \div 2
         IN  Concat(lo, m, f) \o Concat(m + 1, hi, f)

\* the first position >= i of s that holds no whitespace (Len(s)+1 if none)
LStripFrom(s, i) ==
    LET j == First({p \in i..Len(s) : ~IsSpace(At(s, p))})
    IN  IF j = 0 THEN (IF i > Len(s) THEN i ELSE Len(s) + 1) ELSE j

\* the last position j in lo-1..hi such that s[j+1..hi] is whitespace only
RStripTo(s, lo, hi) ==
    LET j == Last({p \in lo..hi : ~IsSpace(At(s, p))})
    IN  IF j = 0 THEN (IF hi < lo THEN hi ELSE lo - 1) ELSE j

\* str.strip()
Strip(s) ==
    LET a == LStripFrom(s, 1)
        b == RStripTo(s, a, Len(s))
    IN  SubSeq(s, a, b)

\* str.replace(old, new) for a one-character old
ReplaceChar(s, old, new) ==
    Concat(1, Len(s), [p \in 1..Len(s) |-> IF At(s, p) = old THEN new ELSE At(s, p)])

\* the least position >= from at which pat occurs in s, 0 if there is none
IndexOf(s, pat, from) ==
    First({p \in from..(Len(s) - Len(pat) + 1) : SubSeq(s, p, p + Len(pat) - 1) = pat})

RECURSIVE Rep(_, _)
\* Python's c * n (by halves)
Rep(c, n) ==
    IF n <= 0 THEN ""
    ELSE LET h == Rep(c, n \div 2)
         IN  h \o h \o (IF n % 2 = 1 THEN c ELSE "")

\* ------------------------------------------------------------------------
\* clean_invalid_json_chars: the three fence patterns (re.DOTALL)
\* ------------------------------------------------------------------------

\* re.search of  opener \s*(.*?)\s*```  : the opener occurs and a closing
\* fence starts at or after the end of the opener
FenceSearch(s, opener) ==
    LET i == IndexOf(s, opener, 1)
    IN  i # 0 /\ IndexOf(s, FENCE, i + Len(opener)) # 0

RECURSIVE FenceSub(_, _)
\* re.sub of  opener \s*(.*?)\s*```  by \1: every non-overlapping match,
\* leftmost first, is replaced by its group, the text between the fences
\* without the whitespace next to either fence
FenceSub(s, opener) ==
    LET i == IndexOf(s, opener, 1)
        g == LStripFrom(s, i + Len(opener))
        q == IndexOf(s, FENCE, g)
        p == RStripTo(s, g, q - 1)
    IN  IF i = 0 \/ q = 0 THEN s
        ELSE SubSeq(s, 1, i - 1) \o SubSeq(s, g, p)
                 \o FenceSub(SubSeq(s, q + 3, Len(s)), opener)

\* re.search of  `(.*?)`  : two backticks occur
TickSearch(s) ==
    LET i == IndexOf(s, BT, 1)
    IN  i # 0 /\ IndexOf(s, BT, i + 1) # 0

RECURSIVE TickSub(_)
\* re.sub of  `(.*?)`  by \1: backticks are removed pair by pair
TickSub(s) ==
    LET i == IndexOf(s, BT, 1)
        j == IndexOf(s, BT, i + 1)
    IN  IF i = 0 \/ j = 0 THEN s
        ELSE SubSeq(s, 1, i - 1) \o SubSeq(s, i + 1, j - 1)
                 \o TickSub(SubSeq(s, j + 1, Len(s)))

\* StripFences applying every pattern in turn instead of the first that
\* matches
StripFencesAll(raw) ==
    LET c == Strip(ReplaceChar(raw, BOM, ""))
    IN  Strip(TickSub(Strip(FenceSub(Strip(FenceSub(c, JSONFENCE)), FENCE))))

\* lines 88-97: BOM removal, strip, then the first pattern that matches
StripFences(raw) ==
    LET c == Strip(ReplaceChar(raw, BOM, ""))
    IN  IF FenceSearch(c, JSONFENCE) THEN Strip(FenceSub(c, JSONFENCE))
        ELSE IF FenceSearch(c, FENCE) THEN Strip(FenceSub(c, FENCE))
        ELSE IF TickSearch(c) THEN Strip(TickSub(c))
        ELSE c

\* ------------------------------------------------------------------------
\* Python values as json.loads produces them
\* ------------------------------------------------------------------------

PyStr(s) == [t |-> "str", s |-> s]
PyInt(n) == [t |-> "int", n |-> n]
PyBool(b) == [t |-> "bool", b |-> b]
PyNone == [t |-> "none"]
PyList(items) == [t |-> "list", items |-> items]
\* a dict is the sequence of its <<key, value>> pairs in insertion order
PyDict(pairs) == [t |-> "dict", pairs |-> pairs]

RECURSIVE DictSetFirst(_, _, _)
\* DictSet that leaves the value of an existing key as it is
DictSetFirst(pairs, k, v) ==
    IF pairs = <<>> THEN << <<k, v>> >>
    ELSE IF Head(pairs)[1] = k THEN pairs
    ELSE <<Head(pairs)>> \o DictSetFirst(Tail(pairs), k, v)

RECURSIVE DictSet(_, _, _)
\* d[k] = v on the pairs of a dict: an existing key keeps its place
DictSet(pairs, k, v) ==
    IF pairs = <<>> THEN << <<k, v>> >>
    ELSE IF Head(pairs)[1] = k THEN << <<k, v>> >> \o Tail(pairs)
    ELSE <<Head(pairs)>> \o DictSet(Tail(pairs), k, v)

DictKeys(pairs) == {pairs[i][1] : i \in 1..Len(pairs)}

DictGet(pairs, k) == pairs[CHOOSE i \in 1..Len(pairs) : pairs[i][1] = k][2]

Digit(d) == SubSeq("0123456789", d + 1, d + 1)

RECURSIVE NatStr(_)
NatStr(n) == IF n < 10 THEN Digit(n) ELSE NatStr(n \div 10) \o Digit(n % 10)

\* str(n) of an int
IntStr(n) == IF n < 0 THEN "-" \o NatStr(0 - n) ELSE NatStr(n)

\* json.dumps of one character of a str
DumpChar(c, ensure_ascii) ==
    CASE c = "\"" -> "\\\""
      [] c = "\\" -> "\\\\"
      [] c = "\n" -> "\\n"
      [] c = "\t" -> "\\t"
      [] c = BOM /\ ensure_ascii -> "\\ufeff"
      [] OTHER -> c

DumpStr(s, ensure_ascii) ==
    "\"" \o Concat(1, Len(s), [p \in 1..Len(s) |-> DumpChar(At(s, p), ensure_ascii)]) \o "\""

RECURSIVE Dumps(_, _)
RECURSIVE DumpItems(_, _)
RECURSIVE DumpPairs(_, _)
\* json.dumps(v, ensure_ascii=...) with the default separators ", " and ": "
Dumps(v, ensure_ascii) ==
    CASE v.t = "str" -> DumpStr(v.s, ensure_ascii)
      [] v.t = "int" -> IntStr(v.n)
      [] v.t = "bool" -> IF v.b THEN "true" ELSE "false"
      [] v.t = "none" -> "null"
      [] v.t = "list" -> "[" \o DumpItems(v.items, ensure_ascii) \o "]"
      [] v.t = "dict" -> "{" \o DumpPairs(v.pairs, ensure_ascii) \o "}"

DumpItems(items, ensure_ascii) ==
    IF items = <<>> THEN ""
    ELSE Dumps(Head(items), ensure_ascii)
             \o (IF Len(items) > 1
                 THEN ", " \o DumpItems(Tail(items), ensure_ascii) ELSE "")

DumpPairs(pairs, ensure_ascii) ==
    IF pairs = <<>> THEN ""
    ELSE DumpStr(Head(pairs)[1], ensure_ascii) \o ": "
             \o Dumps(Head(pairs)[2], ensure_ascii)
             \o (IF Len(pairs) > 1
                 THEN ", " \o DumpPairs(Tail(pairs), ensure_ascii) ELSE "")

\* the result of a parse that failed
NoParse == [ok |-> FALSE, v |-> PyNone, next |-> 0]

YesParse(v, next) == [ok |-> TRUE, v |-> v, next |-> next]

\* the number of backslashes that end right before position p of s
RECURSIVE BackslashesBefore(_, _)
BackslashesBefore(s, p) ==
    IF At(s, p - 1) = "\\" THEN 1 + BackslashesBefore(s, p - 1) ELSE 0

\* position p of s holds the backslash that opens an escape
EscapeAt(s, p) == At(s, p) = "\\" /\ BackslashesBefore(s, p) % 2 = 0

\* the character the escape at p denotes and the width of the escape, 0 if
\* it is none of \n \t \" \\ \/ ﻿ (the escapes the model's texts use)
Unescape(s, p) ==
    LET e == At(s, p + 1)
    IN  CASE e = "n" -> [c |-> "\n", w |-> 2]
          [] e = "t" -> [c |-> "\t", w |-> 2]
          [] e = "\"" -> [c |-> "\"", w |-> 2]
          [] e = "\\" -> [c |-> "\\", w |-> 2]
          [] e = "/" -> [c |-> "/", w |-> 2]
          [] e = "u" /\ Slice(s, p + 2, p + 5) = "feff" -> [c |-> BOM, w |-> 6]
          [] OTHER -> [c |-> "", w |-> 0]

\* position p of s lies inside an escape, after its backslash
InEscape(s, p) ==
    \E k \in 1..5 : p - k >= 1 /\ EscapeAt(s, p - k) /\ Unescape(s, p - k).w > k

\* the JSON string that opens at i - 1 and closes at the quote j (0: none)
ParseStrTo(s, i, j) ==
    IF j = 0 \/ \E p \in i..(j - 1) :
                   \/ At(s, p) \in {"\n", "\t"}
                   \/ EscapeAt(s, p) /\ Unescape(s, p).w = 0
    THEN NoParse
    ELSE YesParse(PyStr(Concat(i, j - 1,
                     [p \in i..(j - 1) |->
                         IF EscapeAt(s, p) THEN Unescape(s, p).c
                         ELSE IF InEscape(s, p) THEN ""
                         ELSE At(s, p)])), j + 1)

\* the JSON string whose opening quote is at i - 1: its closing quote is the
\* first quote no escape covers; raw control characters and unknown escapes
\* make it invalid
ParseStr(s, i) ==
    ParseStrTo(s, i, First({p \in i..Len(s) :
                               At(s, p) = "\"" /\ BackslashesBefore(s, p) % 2 = 0}))

IsDigit(c) == c # "" /\ IndexOf("0123456789", c, 1) # 0

RECURSIVE ParseDigits(_, _, _)
ParseDigits(s, i, acc) ==
    IF IsDigit(At(s, i))
    THEN ParseDigits(s, i + 1, 10 * acc + (IndexOf("0123456789", At(s, i), 1) - 1))
    ELSE [n |-> acc, next |-> i]

\* the JSON integer whose digits start at j and were read as d
ParseIntOf(s, neg, j, d) ==
    IF ~IsDigit(At(s, j)) THEN NoParse
    ELSE IF At(s, j) = "0" /\ d.next > j + 1 THEN YesParse(PyInt(0), j + 1)
    ELSE IF At(s, d.next) \in {".", "e", "E"} THEN NoParse
    ELSE YesParse(PyInt(IF neg THEN 0 - d.n ELSE d.n), d.next)

\* a JSON integer at i: -?(0|[1-9][0-9]*) not followed by a fraction
ParseInt(s, i) ==
    IF At(s, i) = "-" THEN ParseIntOf(s, TRUE, i + 1, ParseDigits(s, i + 1, 0))
    ELSE ParseIntOf(s, FALSE, i, ParseDigits(s, i, 0))

RECURSIVE ParseValue(_, _)
RECURSIVE ParseItems(_, _, _)
RECURSIVE ParsePairs(_, _, _)

\* the JSON value that starts at position i of s
ParseValue(s, i) ==
    CASE At(s, i) = "\"" -> ParseStr(s, i + 1)
      [] At(s, i) = "{" ->
            ParsePairs(s, LStripFrom(s, i + 1), <<>>)
      [] At(s, i) = "[" ->
            ParseItems(s, LStripFrom(s, i + 1), <<>>)
      [] Slice(s, i, i + 3) = "true" -> YesParse(PyBool(TRUE), i + 4)
      [] Slice(s, i, i + 4) = "false" -> YesParse(PyBool(FALSE), i + 5)
      [] Slice(s, i, i + 3) = "null" -> YesParse(PyNone, i + 4)
      [] At(s, i) = "-" \/ IsDigit(At(s, i)) -> ParseInt(s, i)
      [] OTHER -> NoParse

\* after an item, at the token j: the array closes or goes on after a comma
ItemsNext(s, j, now) ==
    IF At(s, j) = "]" THEN YesParse(PyList(now), j + 1)
    ELSE IF At(s, j) = "," THEN ParseItems(s, LStripFrom(s, j + 1), now)
    ELSE NoParse

\* the item r has been read
ItemsAfter(s, acc, r) ==
    IF ~r.ok THEN NoParse
    ELSE ItemsNext(s, LStripFrom(s, r.next), Append(acc, r.v))

\* the items of an array from position i, acc the items before; an array
\* closes at once only where no item came before
ParseItems(s, i, acc) ==
    IF acc = <<>> /\ At(s, i) = "]" THEN YesParse(PyList(<<>>), i + 1)
    ELSE ItemsAfter(s, acc, ParseValue(s, i))

\* after a member, at the token j: the object closes or goes on after a comma
PairsNext(s, j, now) ==
    IF At(s, j) = "}" THEN YesParse(PyDict(now), j + 1)
    ELSE IF At(s, j) = "," THEN ParsePairs(s, LStripFrom(s, j + 1), now)
    ELSE NoParse

\* the value r of the member with key k has been read
PairsAfterValue(s, acc, k, r) ==
    IF ~r.ok THEN NoParse
    ELSE PairsNext(s, LStripFrom(s, r.next), DictSet(acc, k.v.s, r.v))

\* the key k has been read and c is the token after it
PairsAfterKey(s, acc, k, c) ==
    IF At(s, c) # ":" THEN NoParse
    ELSE PairsAfterValue(s, acc, k, ParseValue(s, LStripFrom(s, c + 1)))

\* the key k of a member has been read
PairsKey(s, acc, k) ==
    IF ~k.ok THEN NoParse ELSE PairsAfterKey(s, acc, k, LStripFrom(s, k.next))

\* the members of an object from position i, acc the pairs before; an
\* object closes at once only where no member came before
ParsePairs(s, i, acc) ==
    IF acc = <<>> /\ At(s, i) = "}" THEN YesParse(PyDict(<<>>), i + 1)
    ELSE IF At(s, i) = "\"" THEN PairsKey(s, acc, ParseStr(s, i + 1))
    ELSE NoParse

\* the parse r of the whole of s: nothing but whitespace may follow
LoadsAll(s, r) ==
    IF r.ok /\ LStripFrom(s, r.next) = Len(s) + 1 THEN r ELSE NoParse

\* json.loads(s): ok is FALSE where it raises JSONDecodeError
Loads(s) == LoadsAll(s, ParseValue(s, LStripFrom(s, 1)))

\* ------------------------------------------------------------------------
\* clean_invalid_json_chars: repair and confirmation (lines 98-105)
\* ------------------------------------------------------------------------

\* what a call returns or raises: [ok |-> TRUE, v |-> value] or
\* [ok |-> FALSE, err |-> kind of the exception]
Returns(v) == [ok |-> TRUE, v |-> v]
Raises(kind) == [ok |-> FALSE, err |-> kind]

\* json_repair.repair_json(text). On strict JSON the library returns
\* json.dumps(json.loads(text)). What it makes of any other text (and of the
\* document "", which some releases return as the empty text) is the
\* library's choice: rep, [raises |-> BOOLEAN, text |-> its result].
RepairOf(r, rep) ==
    IF r.ok /\ r.v # PyStr("") THEN Returns(Dumps(r.v, TRUE))
    ELSE IF rep.raises THEN Raises("RepairError")
    ELSE Returns(rep.text)

repair_json(text, rep) == RepairOf(Loads(text), rep)

\* lines 99-105: the confirming json.loads of the repaired text and the
\* final strip; any exception becomes ValueError("Unable to clean JSON")
Confirm(cleaned) ==
    IF cleaned.ok /\ Loads(cleaned.v).ok THEN Returns(Strip(cleaned.v))
    ELSE Raises("UnrepairableContent")

\* clean_invalid_json_chars(content): the cleaned JSON text, or ValueError
\* ("Unable to clean JSON") when the repair or the confirming json.loads fails
clean_invalid_json_chars(raw, rep) == Confirm(repair_json(StripFences(raw), rep))

\* ------------------------------------------------------------------------
\* normalize_ai_response
\* ------------------------------------------------------------------------

required_fields ==
    << "objectives", "teaching_materials", "reference_materials",
       "introduction", "lesson_development", "conclusion", "recapitulation",
       "evaluation", "teacher_evaluation", "homework" >>

CanonicalFields == {required_fields[i] : i \in 1..Len(required_fields)}

key_map ==
    [ objective |-> "objectives",
      objectives |-> "objectives",
      learning_objectives |-> "objectives",
      lesson_objectives |-> "objectives",
      teaching_materials |-> "teaching_materials",
      materials |-> "teaching_materials",
      resources |-> "teaching_materials",
      reference_materials |-> "reference_materials",
      references |-> "reference_materials",
      bibliography |-> "reference_materials",
      introduction |-> "introduction",
      lesson_development |-> "lesson_development",
      development |-> "lesson_development",
      main_lesson |-> "lesson_development",
      conclusion |-> "conclusion",
      summary |-> "conclusion",
      recapulation |-> "recapitulation",
      recapitulation |-> "recapitulation",
      recap |-> "recapitulation",
      review |-> "recapitulation",
      evaluation |-> "evaluation",
      assessment |-> "evaluation",
      teacher_evaluation |-> "teacher_evaluation",
      reflection |-> "teacher_evaluation",
      homework |-> "homework",
      assignment |-> "homework",
      home_work |-> "homework" ]

UpperCase == "ABCDEFGHIJKLMNOPQRSTUVWXYZ"
LowerCase == "abcdefghijklmnopqrstuvwxyz"

LowerChar(c) ==
    LET i == IndexOf(UpperCase, c, 1)
    IN  IF i # 0 THEN SubSeq(LowerCase, i, i) ELSE c

\* str.lower()
Lower(s) == Concat(1, Len(s), [p \in 1..Len(s) |-> LowerChar(At(s, p))])

\* str(value) of a value that is neither dict nor list
PyStrOf(value) ==
    CASE value.t = "str" -> value.s
      [] value.t = "int" -> IntStr(value.n)
      [] value.t = "bool" -> IF value.b THEN "True" ELSE "False"
      [] value.t = "none" -> "None"

\* flatten_value that serializes every value, strings included, with
\* json.dumps
FlattenAsJson(value) == Strip(ReplaceChar(Dumps(value, FALSE), "\n", " "))

\* flatten_value (lines 270-281)
flatten_value(value) ==
    IF value.t \in {"dict", "list"}
    THEN Strip(ReplaceChar(Dumps(value, FALSE), "\n", " "))
    ELSE Strip(ReplaceChar(PyStrOf(value), "\n", " "))

RECURSIVE MapKeysKeepAll(_, _)
\* MapKeys keeping the keys key_map does not know under their own name
MapKeysKeepAll(pairs, acc) ==
    IF pairs = <<>> THEN acc
    ELSE LET ai_key == Head(pairs)[1]
             low == Lower(ai_key)
         IN  MapKeysKeepAll(Tail(pairs),
                            DictSet(acc, IF low \in DOMAIN key_map
                                         THEN key_map[low] ELSE ai_key,
                                    PyStr(flatten_value(Head(pairs)[2]))))

RECURSIVE MapKeys(_, _)
\* the loop of lines 284-289 over the items of ai_response
MapKeys(pairs, acc) ==
    IF pairs = <<>> THEN acc
    ELSE LET ai_key == Head(pairs)[1]
             low == Lower(ai_key)
         IN  IF low \in DOMAIN key_map
             THEN MapKeys(Tail(pairs),
                          DictSet(acc, key_map[low],
                                  PyStr(flatten_value(Head(pairs)[2]))))
             ELSE MapKeys(Tail(pairs), acc)

\* FillMissing without lines 304-307: absent fields stay absent
FillNothing(acc, i) == acc

RECURSIVE FillMissing(_, _)
\* the loop of lines 304-307 over required_fields from position i
FillMissing(acc, i) ==
    IF i > Len(required_fields) THEN acc
    ELSE IF required_fields[i] \in DictKeys(acc)
         THEN FillMissing(acc, i + 1)
    ELSE FillMissing(Append(acc, <<required_fields[i], PyStr("")>>), i + 1)

\* normalize_ai_response without the isinstance check of lines 235-237: a
\* value that is no dict is treated as a dict without items
NormalizeAnyShape(ai_response) ==
    Returns(PyDict(FillMissing(IF ai_response.t = "dict"
                               THEN MapKeys(ai_response.pairs, <<>>) ELSE <<>>, 1)))

\* normalize_ai_response(ai_response): the normalized dict, or ValueError
\* ("AI response must be a dictionary")
normalize_ai_response(ai_response) ==
    IF ai_response.t # "dict" THEN Raises("InvalidResponseShape")
    ELSE Returns(PyDict(FillMissing(MapKeys(ai_response.pairs, <<>>), 1)))

\* ------------------------------------------------------------------------
\* SCHEMA and jsonschema.validate
\* ------------------------------------------------------------------------

SCHEMA ==
    [ type |-> "object",
      required |-> CanonicalFields,
      properties |->
        [ objectives |-> [type |-> {"string"}, minLength |-> 10, maxLength |-> 2000],
          teaching_materials |->
            [type |-> {"string", "object", "array"}, minLength |-> 5, maxLength |-> 1000],
          reference_materials |->
            [type |-> {"string", "array"}, minLength |-> 5, maxLength |-> 1000],
          introduction |->
            [type |-> {"string", "object"}, minLength |-> 20, maxLength |-> 1500],
          lesson_development |->
            [type |-> {"string", "object"}, minLength |-> 50, maxLength |-> 5000],
          conclusion |-> [type |-> {"string"}, minLength |-> 20, maxLength |-> 1500],
          recapitulation |-> [type |-> {"string"}, minLength |-> 10, maxLength |-> 1000],
          evaluation |-> [type |-> {"string"}, minLength |-> 10, maxLength |-> 1000],
          teacher_evaluation |->
            [type |-> {"string"}, minLength |-> 10, maxLength |-> 1000],
          homework |-> [type |-> {"string"}, minLength |-> 5, maxLength |-> 1000] ],
      additionalProperties |-> FALSE ]

\* the JSON Schema type of a Python value
JsonType(v) ==
    CASE v.t = "str" -> "string"
      [] v.t = "int" -> "integer"
      [] v.t = "bool" -> "boolean"
      [] v.t = "none" -> "null"
      [] v.t = "list" -> "array"
      [] v.t = "dict" -> "object"

\* PropertyValid with both length bounds exclusive
PropertyValidExclusive(v, ps) ==
    /\ JsonType(v) \in ps.type
    /\ v.t = "str" => Len(v.s) > ps.minLength
    /\ v.t = "str" => Len(v.s) < ps.maxLength

\* the keywords type, minLength and maxLength of one property schema;
\* the length keywords constrain strings only
PropertyValid(v, ps) ==
    /\ JsonType(v) \in ps.type
    /\ v.t = "str" => Len(v.s) >= ps.minLength
    /\ v.t = "str" => Len(v.s) <= ps.maxLength

\* Validates without the length keywords
ValidatesIgnoringLength(instance, schema) ==
    /\ JsonType(instance) = schema.type
    /\ \A f \in schema.required : f \in DictKeys(instance.pairs)
    /\ \A i \in 1..Len(instance.pairs) :
          IF instance.pairs[i][1] \in DOMAIN schema.properties
          THEN JsonType(instance.pairs[i][2])
                   \in schema.properties[instance.pairs[i][1]].type
          ELSE schema.additionalProperties

\* jsonschema.validate(instance, schema) does not raise ValidationError
Validates(instance, schema) ==
    /\ JsonType(instance) = schema.type
    /\ \A f \in schema.required : f \in DictKeys(instance.pairs)
    /\ \A i \in 1..Len(instance.pairs) :
          LET k == instance.pairs[i][1]
          IN  IF k \in DOMAIN schema.properties
              THEN PropertyValid(instance.pairs[i][2], schema.properties[k])
              ELSE schema.additionalProperties

\* ------------------------------------------------------------------------
\* sanitize_text
\* ------------------------------------------------------------------------

ALLOWED_TAGS == {"p", "br", "ul", "li", "strong", "em", "b", "i", "h1", "h2", "h3", "ol"}

\* repr() of one character of a str between quotes q
ReprChar(c, q) ==
    CASE c = q -> "\\" \o q
      [] c = "\\" -> "\\\\"
      [] c = "\n" -> "\\n"
      [] c = "\t" -> "\\t"
      [] c = BOM -> "\\ufeff"
      [] OTHER -> c

\* repr() of a str: single quotes, double quotes when the text holds a
\* single quote and no double quote
ReprStr(s) ==
    LET q == IF IndexOf(s, "'", 1) # 0 /\ IndexOf(s, "\"", 1) = 0 THEN "\"" ELSE "'"
    IN  q \o Concat(1, Len(s), [p \in 1..Len(s) |-> ReprChar(At(s, p), q)]) \o q

RECURSIVE PyRepr(_)
RECURSIVE ReprItems(_)
RECURSIVE ReprPairs(_)
\* repr(value), which is what str() gives for a list or a dict
PyRepr(value) ==
    CASE value.t = "str" -> ReprStr(value.s)
      [] value.t = "int" -> IntStr(value.n)
      [] value.t = "bool" -> IF value.b THEN "True" ELSE "False"
      [] value.t = "none" -> "None"
      [] value.t = "list" -> "[" \o ReprItems(value.items) \o "]"
      [] value.t = "dict" -> "{" \o ReprPairs(value.pairs) \o "}"

ReprItems(items) ==
    IF items = <<>> THEN ""
    ELSE PyRepr(Head(items))
             \o (IF Len(items) > 1 THEN ", " ELSE "") \o ReprItems(Tail(items))

ReprPairs(pairs) ==
    IF pairs = <<>> THEN ""
    ELSE ReprStr(Head(pairs)[1]) \o ": " \o PyRepr(Head(pairs)[2])
             \o (IF Len(pairs) > 1 THEN ", " ELSE "") \o ReprPairs(Tail(pairs))

\* str(value) of any value
PyStrAny(value) == IF value.t = "str" THEN value.s ELSE PyRepr(value)

IsLetter(c) == c # "" /\ (IndexOf(LowerCase, c, 1) # 0 \/ IndexOf(UpperCase, c, 1) # 0)

\* the position of the name of the tag that opens at position i of s
\* ("<" or "</" followed by a letter), 0 if no tag opens there
TagNameStart(s, i) ==
    IF At(s, i) # "<" THEN 0
    ELSE IF IsLetter(At(s, i + 1)) THEN i + 1
    ELSE IF At(s, i + 1) = "/" /\ IsLetter(At(s, i + 2)) THEN i + 2
    ELSE 0

\* the end of the tag name that starts at position i
TagNameEnd(s, i) ==
    LET j == First({p \in i..Len(s) : IsSpace(At(s, p)) \/ At(s, p) \in {"/", ">"}})
    IN  IF j = 0 THEN Len(s) ELSE j - 1

\* the lower-cased name of the tag whose name starts at position n
TagName(s, n) == Lower(Slice(s, n, TagNameEnd(s, n)))

\* the first position >= from at which a tag opens in s, 0 if there is none
NextTag(s, from) == First({p \in from..Len(s) : TagNameStart(s, p) # 0})

\* the serializer's escaping of the characters of text outside tags
EscapeChar(c) ==
    CASE c = "<" -> "&lt;"
      [] c = ">" -> "&gt;"
      [] c = "&" -> "&amp;"
      [] OTHER -> c

EscapeText(s) == Concat(1, Len(s), [p \in 1..Len(s) |-> EscapeChar(At(s, p))])

RECURSIVE bleach_clean(_)
\* bleach.clean(text, tags=ALLOWED_TAGS, attributes=ALLOWED_ATTRIBUTES,
\* strip=True) on text whose tags carry no attributes and whose elements
\* are closed in order: a tag of the allow-list is written back with its
\* name in lower case, any other tag is dropped with its content kept, a
\* tag that never ends is dropped, text outside tags is escaped
bleach_clean(text) ==
    LET i == NextTag(text, 1)
        n == TagNameStart(text, i)
        j == IndexOf(text, ">", n)
        name == TagName(text, n)
    IN  IF i = 0 THEN EscapeText(text)
        ELSE IF j = 0 THEN EscapeText(SubSeq(text, 1, i - 1))
        ELSE EscapeText(SubSeq(text, 1, i - 1))
                 \o (IF name \in ALLOWED_TAGS
                     THEN SubSeq(text, i, n - 1) \o name \o ">"
                     ELSE "")
                 \o bleach_clean(SubSeq(text, j + 1, Len(text)))

\* sanitize_text (lines 31-37)
sanitize_text(value) ==
    IF value.t # "str" THEN PyStrAny(value) ELSE bleach_clean(value.s)

\* ------------------------------------------------------------------------
\* The inputs of the model: documents, model responses, repair results
\* ------------------------------------------------------------------------

\* the largest max_retries a direct caller passes in its config
MaxRetries == 2

\* LessonPlanConfig.max_retries
DefaultMaxRetries == 3

\* the least stripped length of a response that is processed (line 130)
MinContentLen == 50

MinLen(f) == SCHEMA.properties[f].minLength
MaxLen(f) == SCHEMA.properties[f].maxLength

\* ten canonical keys, every value of exactly its minimum length
GoodPairs == [i \in 1..Len(required_fields) |->
                 <<required_fields[i], PyStr(Rep("a", MinLen(required_fields[i])))>>]

GoodDoc == PyDict(GoodPairs)

\* synonyms, upper case, an array, an object and newlines inside a value
SynonymDoc ==
    PyDict(<< <<"Objective", PyStr("Teach the\nwater cycle")>>,
              <<"materials", PyList(<<PyStr("book"), PyStr("chalk")>>)>>,
              <<"REFERENCES", PyStr("Grade 8 book")>>,
              <<"introduction", PyDict(<< <<"warmup", PyStr("Think-Pair-Share")>> >>)>>,
              <<"main_lesson", PyStr(Rep("step ", 12))>>,
              <<"summary", PyStr(Rep("b", 20))>>,
              <<"recap", PyStr(Rep("c", 10))>>,
              <<"assessment", PyStr(Rep("d", 10))>>,
              <<"reflection", PyStr(Rep("e", 10))>>,
              <<"home_work", PyInt(12345)>> >>)

\* objectives one character below its minimum length
ShortDoc == PyDict(DictSet(GoodPairs, "objectives", PyStr(Rep("a", MinLen("objectives") - 1))))

\* homework is absent
MissingDoc == PyDict(SubSeq(GoodPairs, 1, Len(GoodPairs) - 1))

\* a key the synonym table does not know
ExtraDoc == PyDict(Append(GoodPairs, <<"notes", PyStr("none")>>))

\* documents that are no mapping
ListDoc == PyList(<<PyStr(Rep("a", 60))>>)
StrDoc == PyStr(Rep("a", 60))

\* a scalar document inside a json fence, padded to pass the length gate
Fenced(doc) == JSONFENCE \o Rep(" ", MinContentLen) \o doc \o "\n" \o FENCE

\* what ollama.chat answers: response["message"]["content"]
Responses ==
    << "",
       Rep(" ", 60),
       Dumps(PyDict(<<>>), TRUE),
       Dumps(GoodDoc, TRUE),
       JSONFENCE \o "\n" \o Dumps(SynonymDoc, TRUE) \o "\n" \o FENCE,
       "Here you go:\n" \o FENCE \o "\n" \o Dumps(GoodDoc, TRUE) \o "\n" \o FENCE,
       Dumps(ShortDoc, TRUE),
       Dumps(MissingDoc, TRUE),
       Dumps(ExtraDoc, TRUE),
       Dumps(ListDoc, TRUE),
       Dumps(StrDoc, TRUE),
       Fenced("12"),
       Fenced("true"),
       Fenced("null"),
       Rep("?", 60) >>

\* the exceptions ollama.chat raises: a timeout or connection error, and the
\* JSONDecodeError of a server reply that is no JSON
ChatErrors == {"ModelCallError", "JSONDecodeError"}

\* what json_repair makes of text that is not strict JSON
RepairResults ==
    << [raises |-> TRUE, text |-> ""],
       [raises |-> FALSE, text |-> ""],
       [raises |-> FALSE, text |-> Dumps(GoodDoc, TRUE)],
       [raises |-> FALSE, text |-> Dumps(PyStr(""), TRUE)] >>

\* ------------------------------------------------------------------------
\* generate_lesson_plan: the body of one attempt (lines 127-142)
\* ------------------------------------------------------------------------

\* a local variable of generate_lesson_plan: not yet assigned, or its value
Unbound == [bound |-> FALSE]
Bound(v) == [bound |-> TRUE, v |-> v]

\* how far the try body gets on the text the model returned: the locals it
\* assigns and the exception it raises ("none": validate passed and
\* normalized is returned)
Got(e, c, q, n) == [exc |-> e, clean_content |-> c, parsed |-> q, normalized |-> n]

\* the try body's result together with the text it ran on
On(raw, got) ==
    [content |-> raw, exc |-> got.exc, clean_content |-> got.clean_content,
     parsed |-> got.parsed, normalized |-> got.normalized]

\* Keep for locals that are assigned once and never again: the value of an
\* earlier attempt stays
KeepFirst(old, new) == IF old.bound THEN old ELSE new

\* a local after an attempt: an assignment that did not happen leaves the
\* value of the attempt before
Keep(old, new) == IF new.bound THEN new ELSE old

\* lines 140-142: validate(instance=normalized, schema=SCHEMA)
AfterNormalize(c, q, nm) ==
    IF ~nm.ok THEN Got(nm.err, Bound(c), Bound(q), Unbound)
    ELSE IF ~Validates(nm.v, SCHEMA)
         THEN Got("ValidationError", Bound(c), Bound(q), Bound(nm.v))
    ELSE Got("none", Bound(c), Bound(q), Bound(nm.v))

\* line 137: normalized = normalize_ai_response(parsed)
AfterLoads(c, pr) ==
    IF ~pr.ok THEN Got("JSONDecodeError", Bound(c), Unbound, Unbound)
    ELSE AfterNormalize(c, pr.v, normalize_ai_response(pr.v))

\* line 136: parsed = json.loads(clean_content)
AfterClean(cc) ==
    IF ~cc.ok THEN Got(cc.err, Unbound, Unbound, Unbound)
    ELSE AfterLoads(cc.v, Loads(cc.v))

\* lines 130-142 on the response text raw
TryBody(raw, rep) ==
    IF raw = "" \/ Len(Strip(raw)) < MinContentLen
    THEN Got("InsufficientContent", Unbound, Unbound, Unbound)
    ELSE AfterClean(clean_invalid_json_chars(raw, rep))

RECURSIVE Tabulate(_, _)
\* the sequence <<f[1], ..., f[n]>>, every element computed
Tabulate(f, n) == IF n = 0 THEN <<>> ELSE Append(Tabulate(f, n - 1), f[n])

\* TryBody on every response and repair result of the model, computed once
TryTable ==
    Tabulate([i \in 1..Len(Responses) |->
                 Tabulate([r \in 1..Len(RepairResults) |->
                              On(Responses[i], TryBody(Responses[i], RepairResults[r]))],
                          Len(RepairResults))],
             Len(Responses))

\* the except clause that catches an exception of the given kind
Handler(kind) ==
    CASE kind = "JSONDecodeError" -> "except_json"
      [] kind = "ValidationError" -> "except_validation"
      [] OTHER -> "except_other"

NoError == [kind |-> "None", attempt |-> 0 - 1]
Error(kind, n) == [kind |-> kind, attempt |-> n]

\* 2 ** n
RECURSIVE Pow2(_)
Pow2(n) == IF n = 0 THEN 1 ELSE 2 * Pow2(n - 1)


\* ------------------------------------------------------------------------
\* generate_and_save_lesson_plan: the form data and its checks
\* ------------------------------------------------------------------------

REQUIRED_FORM_FIELDS ==
    << "teacher_name", "date", "school", "time", "grade", "duration",
       "subject", "num_pupils", "topic", "sub_topic", "gender" >>

\* a posted form: every required field filled, num_pupils as given
FormPairs(pupils) ==
    [i \in 1..Len(REQUIRED_FORM_FIELDS) |->
        << REQUIRED_FORM_FIELDS[i],
           PyStr(CASE REQUIRED_FORM_FIELDS[i] = "num_pupils" -> pupils
                   [] REQUIRED_FORM_FIELDS[i] = "teacher_name" -> "<b>Ms A</b><script>"
                   [] REQUIRED_FORM_FIELDS[i] = "date" -> "2025-01-31"
                   [] OTHER -> "x") >>]

\* request.POST.dict() of the requests of the model
Forms ==
    { PyDict(FormPairs("30")),
      PyDict(FormPairs(" 7 ")),
      PyDict(FormPairs("0")),
      PyDict(FormPairs("-3")),
      PyDict(FormPairs("many")),
      PyDict(FormPairs("")),
      PyDict(SubSeq(FormPairs("30"), 1, Len(REQUIRED_FORM_FIELDS) - 1)) }

\* lines 168-170: the required fields with not data.get(field)
missing_fields(d) ==
    { f \in {REQUIRED_FORM_FIELDS[i] : i \in 1..Len(REQUIRED_FORM_FIELDS)} :
         f \notin DictKeys(d.pairs) \/ DictGet(d.pairs, f) = PyStr("") }

\* the digits d read from position j of t make the whole of t an int
IntOf(t, neg, j, d) ==
    IF j > Len(t) \/ d.next # Len(t) + 1 THEN Raises("ValueError")
    ELSE Returns(IF neg THEN 0 - d.n ELSE d.n)

\* int(s) of the stripped text t: an optional sign, then decimal digits only
IntOfStripped(t) ==
    IF At(t, 1) \in {"-", "+"} THEN IntOf(t, At(t, 1) = "-", 2, ParseDigits(t, 2, 0))
    ELSE IntOf(t, FALSE, 1, ParseDigits(t, 1, 0))

\* int(s) of a str (line 178)
PyIntOf(s) == IntOfStripped(Strip(s))

\* lines 167-182: the ValidationError the form data raises, "none" if it passes
FormError(d) ==
    IF missing_fields(d) # {} THEN "MissingFields"
    ELSE IF ~PyIntOf(DictGet(d.pairs, "num_pupils").s).ok THEN "InvalidNumber"
    ELSE IF PyIntOf(DictGet(d.pairs, "num_pupils").s).v <= 0 THEN "NotPositive"
    ELSE "none"

RECURSIVE Merge(_, _)
\* {**a, **b} on the pairs of two dicts
Merge(a, b) ==
    IF b = <<>> THEN a ELSE Merge(DictSet(a, Head(b)[1], Head(b)[2]), Tail(b))

\* lines 193-196: sanitize_text over every value of the merged dict
Sanitized(pairs) ==
    [i \in 1..Len(pairs) |-> <<pairs[i][1], PyStr(sanitize_text(pairs[i][2]))>>]

\* lines 190-196: the second normalisation, the merge with the form data and
\* the sanitising, on the record generate_lesson_plan returned
SanitizedData(d, ai_response_raw) ==
    PyDict(Sanitized(Merge(d.pairs, normalize_ai_response(ai_response_raw).v.pairs)))

\* how LessonPlan.objects.create ends: the row is inserted, a field rejects
\* its value (django ValidationError), or the database fails
CreateOutcomes == {"created", "ValidationError", "DatabaseError"}

\* ------------------------------------------------------------------------
\* State
\* ------------------------------------------------------------------------

VARIABLES
    vpc,            \* the caller: the view generate_and_save_lesson_plan or a direct call
    data,           \* request.POST.dict() of the view
    rows,           \* the LessonPlan table
    pc,             \* control point of generate_lesson_plan
    max_retries,    \* config.max_retries
    attempt,        \* the loop variable
    last_error,
    content, clean_content, parsed, normalized,   \* locals of the try body
    exc,            \* the exception being handled
    outcome,        \* what generate_lesson_plan returned or raised
    calls,          \* number of ollama.chat invocations so far
    sleeps,         \* the durations of the time.sleep calls so far
    failures,       \* the exception each failed attempt recorded
    assigned        \* the locals the latest attempt assigned

vars == << vpc, data, rows, pc, max_retries, attempt, last_error, content,
           clean_content, parsed, normalized, exc, outcome, calls, sleeps,
           failures, assigned >>

view_vars == <<vpc, data, rows>>
local_vars == <<content, clean_content, parsed, normalized>>
ghost_vars == <<calls, sleeps, failures, assigned>>

NoOutcome == [kind |-> "none"]
Returned(v) == [kind |-> "return", v |-> v]
Raised(e, cause) == [kind |-> "raise", err |-> e, cause |-> cause]

\* no request is being served and generate_lesson_plan has not been called
Idle ==
    /\ vpc = "idle"
    /\ data = PyDict(<<>>)
    /\ rows = <<>>
    /\ pc = "idle"
    /\ max_retries = 0
    /\ attempt = 0
    /\ last_error = NoError
    /\ exc = NoError
    /\ outcome = NoOutcome
    /\ calls = 0
    /\ sleeps = <<>>
    /\ failures = <<>>
    /\ assigned = {}

Init ==
    /\ Idle
    /\ content = Unbound
    /\ clean_content = Unbound
    /\ parsed = Unbound
    /\ normalized = Unbound

\* generate_lesson_plan(prompt, config) is entered (lines 112-115)
Enter(m) ==
    /\ pc' = "loop"
    /\ max_retries' = m
    /\ attempt' = 0
    /\ last_error' = NoError
    /\ UNCHANGED <<local_vars, exc, outcome, ghost_vars>>

\* the least max_retries a caller passes: range() of a negative number is
\* empty as range(0) is
MinRetries == 0 - 1

\* a caller other than the view passes its own config
DirectCall ==
    /\ vpc = "idle"
    /\ \E m \in MinRetries..MaxRetries : Enter(m)
    /\ vpc' = "direct"
    /\ UNCHANGED <<data, rows>>

\* views.py lines 164-190: a GET renders the empty form; a POST whose data
\* fails a check renders the form with the error; otherwise num_pupils
\* becomes an int and generate_lesson_plan(prompt) is called with the
\* default config
ViewRequest ==
    /\ vpc = "idle"
    /\ \/ /\ vpc' = "form"
          /\ UNCHANGED <<data, pc, max_retries, attempt, last_error>>
       \/ \E d \in Forms :
             IF FormError(d) # "none"
             THEN /\ vpc' = "rejected"
                  /\ data' = d
                  /\ UNCHANGED <<pc, max_retries, attempt, last_error>>
             ELSE /\ vpc' = "generating"
                  /\ data' = PyDict(DictSet(d.pairs, "num_pupils",
                                 PyInt(PyIntOf(DictGet(d.pairs, "num_pupils").s).v)))
                  /\ pc' = "loop"
                  /\ max_retries' = DefaultMaxRetries
                  /\ attempt' = 0
                  /\ last_error' = NoError
    /\ UNCHANGED <<rows, local_vars, exc, outcome, ghost_vars>>

\* views.py lines 190-242: generate_lesson_plan returned; the record is
\* normalised again, merged with the form data, sanitised and inserted
ViewSave ==
    /\ vpc = "generating"
    /\ pc = "returned"
    /\ \E created \in CreateOutcomes :
          CASE created = "created" ->
                  /\ rows' = Append(rows, SanitizedData(data, outcome.v))
                  /\ vpc' = "created"
            [] created = "ValidationError" ->
                  /\ rows' = rows
                  /\ vpc' = "rejected"
            [] created = "DatabaseError" ->
                  /\ rows' = rows
                  /\ vpc' = "failed"
    /\ UNCHANGED <<data, pc, max_retries, attempt, last_error, local_vars, exc,
                   outcome, ghost_vars>>

\* ViewFail saving the form data as a draft row when generation failed
ViewFailSavesDraft ==
    /\ vpc = "generating"
    /\ pc = "raised"
    /\ vpc' = "failed"
    /\ rows' = Append(rows, data)
    /\ UNCHANGED <<data, pc, max_retries, attempt, last_error, local_vars,
                   exc, outcome, ghost_vars>>

\* views.py lines 253-263: generate_lesson_plan raised; except Exception
\* renders the form with "An unexpected error occurred"
ViewFail ==
    /\ vpc = "generating"
    /\ pc = "raised"
    /\ vpc' = "failed"
    /\ UNCHANGED <<data, rows, pc, max_retries, attempt, last_error, local_vars,
                   exc, outcome, ghost_vars>>

\* LoopHead as a loop that runs its body once before it tests
LoopHeadTestsAfter ==
    /\ pc = "loop"
    /\ pc' = IF attempt < max_retries \/ attempt = 0 THEN "try" ELSE "exhausted"
    /\ UNCHANGED <<view_vars, max_retries, attempt, last_error, local_vars, exc,
                   outcome, ghost_vars>>

\* line 117: for attempt in range(config.max_retries)
LoopHead ==
    /\ pc = "loop"
    /\ pc' = IF attempt < max_retries THEN "try" ELSE "exhausted"
    /\ UNCHANGED <<view_vars, max_retries, attempt, last_error, local_vars, exc,
                   outcome, ghost_vars>>

\* lines 122-126: ollama.chat raises
ChatRaises ==
    /\ pc = "try"
    /\ \E kind \in ChatErrors :
          /\ exc' = Error(kind, attempt)
          /\ pc' = Handler(kind)
    /\ calls' = calls + 1
    /\ assigned' = {}
    /\ UNCHANGED <<view_vars, max_retries, attempt, last_error, local_vars,
                   outcome, sleeps, failures>>

\* the locals among those of t that are bound
AssignedBy(t) ==
    {"content"} \cup {n \in {"clean_content", "parsed", "normalized"} : t[n].bound}

\* lines 122-142: ollama.chat answers and the try body runs on the answer
ChatAnswers ==
    /\ pc = "try"
    /\ \E i \in 1..Len(Responses), r \in 1..Len(RepairResults) :
       \E t \in {TryTable[i][r]} :
          /\ content' = Bound(t.content)
          /\ clean_content' = Keep(clean_content, t.clean_content)
          /\ parsed' = Keep(parsed, t.parsed)
          /\ normalized' = Keep(normalized, t.normalized)
          /\ assigned' = AssignedBy(t)
          /\ IF t.exc = "none"
             THEN /\ pc' = "returned"
                  /\ outcome' = Returned(t.normalized.v)
                  /\ exc' = exc
             ELSE /\ pc' = Handler(t.exc)
                  /\ exc' = Error(t.exc, attempt)
                  /\ outcome' = outcome
    /\ calls' = calls + 1
    /\ UNCHANGED <<view_vars, max_retries, attempt, last_error, sleeps, failures>>

\* an exception raised inside an except clause leaves generate_lesson_plan
Escape(kind) ==
    /\ pc' = "raised"
    /\ outcome' = Raised(kind, exc)

\* lines 144-148: the f-strings read content and clean_content
ExceptJSONDecodeError ==
    /\ pc = "except_json"
    /\ last_error' = exc
    /\ failures' = Append(failures, exc)
    /\ IF content.bound /\ clean_content.bound
       THEN pc' = "after" /\ outcome' = outcome
       ELSE Escape("UnboundLocalError")
    /\ UNCHANGED <<view_vars, max_retries, attempt, local_vars, exc, calls, sleeps,
                   assigned>>

\* lines 149-155: the f-strings read parsed, and normalized if it is bound
ExceptValidationError ==
    /\ pc = "except_validation"
    /\ last_error' = exc
    /\ failures' = Append(failures, exc)
    /\ IF parsed.bound
       THEN pc' = "after" /\ outcome' = outcome
       ELSE Escape("UnboundLocalError")
    /\ UNCHANGED <<view_vars, max_retries, attempt, local_vars, exc, calls, sleeps,
                   assigned>>

\* ExceptException keeping the first error it saw as last_error
ExceptExceptionKeepsFirst ==
    /\ pc = "except_other"
    /\ last_error' = IF last_error = NoError THEN exc ELSE last_error
    /\ failures' = Append(failures, exc)
    /\ pc' = "after"
    /\ UNCHANGED <<view_vars, max_retries, attempt, local_vars, exc, outcome,
                   calls, sleeps, assigned>>

\* lines 156-158
ExceptException ==
    /\ pc = "except_other"
    /\ last_error' = exc
    /\ failures' = Append(failures, exc)
    /\ pc' = "after"
    /\ UNCHANGED <<view_vars, max_retries, attempt, local_vars, exc, outcome,
                   calls, sleeps, assigned>>

\* Backoff with the bound of line 160 off by one: no sleep before the last
\* attempt either
BackoffOffByOne ==
    /\ pc = "after"
    /\ sleeps' = IF attempt < max_retries - 2
                 THEN Append(sleeps, Pow2(attempt)) ELSE sleeps
    /\ attempt' = attempt + 1
    /\ pc' = "loop"
    /\ UNCHANGED <<view_vars, max_retries, last_error, local_vars, exc, outcome,
                   calls, failures, assigned>>

\* lines 160-163, then the next iteration
Backoff ==
    /\ pc = "after"
    /\ sleeps' = IF attempt < max_retries - 1
                 THEN Append(sleeps, Pow2(attempt)) ELSE sleeps
    /\ attempt' = attempt + 1
    /\ pc' = "loop"
    /\ UNCHANGED <<view_vars, max_retries, last_error, local_vars, exc, outcome,
                   calls, failures, assigned>>

\* lines 165-169: raise ValueError(error_msg) from last_error
Exhausted ==
    /\ pc = "exhausted"
    /\ pc' = "raised"
    /\ outcome' = Raised("GenerationExhausted", last_error)
    /\ UNCHANGED <<view_vars, max_retries, attempt, last_error, local_vars, exc,
                   ghost_vars>>

Generate ==
    \/ LoopHead
    \/ ChatRaises
    \/ ChatAnswers
    \/ ExceptJSONDecodeError
    \/ ExceptValidationError
    \/ ExceptException
    \/ Backoff
    \/ Exhausted

View == ViewRequest \/ ViewSave \/ ViewFail

Next == DirectCall \/ View \/ Generate

Spec == Init /\ [][Next]_vars

\* generate_lesson_plan is sequential code: once ollama.chat and time.sleep
\* return, the statement that follows them runs
SpecLive == Spec /\ WF_vars(Generate)

\* ------------------------------------------------------------------------
\* normalize_ai_response alone: line 137 on any decoded value
\* ------------------------------------------------------------------------

\* the most items a decoded mapping of the model holds
MaxItems == 2

\* canonical, synonym in other letter case, unrecognized and empty keys
NormKeys == {"objectives", "Objective", "MATERIALS", "notes", ""}

\* string, scalar, array and object values
NormValues ==
    { PyStr(" Teach the\nwater cycle "),
      PyInt(7),
      PyBool(TRUE),
      PyNone,
      PyList(<<PyStr("book"), PyStr("chalk")>>),
      PyDict(<< <<"warmup", PyStr("Think-Pair-Share")>> >>) }

\* decoded values that are no mapping
NonMappings == {PyList(<<>>), PyStr("x"), PyInt(3), PyBool(FALSE), PyNone}

InitNormalize ==
    /\ Idle
    /\ content = Unbound
    /\ clean_content = Unbound
    /\ parsed \in {Bound(PyDict(<<>>))} \cup {Bound(v) : v \in NonMappings}
    /\ normalized = Unbound

\* line 137 has run
Normalized == normalized.bound \/ exc # NoError

\* json.loads produced one more item of the mapping
AddItem ==
    /\ ~Normalized
    /\ parsed.v.t = "dict"
    /\ Len(parsed.v.pairs) < MaxItems
    /\ \E k \in NormKeys \ DictKeys(parsed.v.pairs), v \in NormValues :
          parsed' = Bound(PyDict(Append(parsed.v.pairs, <<k, v>>)))
    /\ UNCHANGED <<view_vars, pc, max_retries, attempt, last_error, content,
                   clean_content, normalized, exc, outcome, ghost_vars>>

\* line 137: normalized = normalize_ai_response(parsed)
Normalize ==
    /\ ~Normalized
    /\ \E r \in {normalize_ai_response(parsed.v)} :
          IF r.ok
          THEN normalized' = Bound(r.v) /\ exc' = exc
          ELSE normalized' = normalized /\ exc' = Error(r.err, attempt)
    /\ UNCHANGED <<view_vars, pc, max_retries, attempt, last_error, content,
                   clean_content, parsed, outcome, ghost_vars>>

NextNormalize == AddItem \/ Normalize

SpecNormalize == InitNormalize /\ [][NextNormalize]_vars

\* ------------------------------------------------------------------------
\* normalize_ai_response twice: line 137 of utils.py, then line 190 of
\* views.py on the result
\* ------------------------------------------------------------------------

\* the mappings json.loads produced whole: the documents of the responses
WholeDocs == {GoodDoc, SynonymDoc, ShortDoc, MissingDoc, ExtraDoc}

InitRenormalize ==
    /\ Idle
    /\ content = Unbound
    /\ clean_content = Unbound
    /\ parsed \in {Bound(PyDict(<<>>))} \cup {Bound(d) : d \in WholeDocs}
    /\ normalized = Unbound

\* views.py line 190: ai_response = normalize_ai_response(ai_response_raw)
Renormalize ==
    /\ normalized.bound
    /\ outcome = NoOutcome
    /\ \E r \in {normalize_ai_response(normalized.v)} :
          outcome' = IF r.ok THEN Returned(r.v) ELSE Raised(r.err, NoError)
    /\ UNCHANGED <<view_vars, pc, max_retries, attempt, last_error, local_vars,
                   exc, ghost_vars>>

NextRenormalize == AddItem \/ Normalize \/ Renormalize

SpecRenormalize == InitRenormalize /\ [][NextRenormalize]_vars

\* ------------------------------------------------------------------------
\* validate alone: line 140 on records around the length bounds
\* ------------------------------------------------------------------------

\* how far from a length bound the lengths of the model go
Slack == 2

\* the lengths around the two bounds of field f
Lengths(f) ==
    ((MinLen(f) - Slack)..(MinLen(f) + Slack))
        \cup ((MaxLen(f) - Slack)..(MaxLen(f) + Slack))

\* GoodDoc with the value of field f made n characters long
Stretched(f, n) == PyDict(DictSet(GoodPairs, f, PyStr(Rep("a", n))))

InitValidate ==
    /\ Idle
    /\ content = Unbound
    /\ clean_content = Unbound
    /\ parsed = Unbound
    /\ normalized \in UNION {{Bound(Stretched(f, n)) : n \in Lengths(f)} :
                                 f \in CanonicalFields}

\* lines 140-142: validate(instance=normalized, schema=SCHEMA), then return
\* normalized or raise ValidationError
Validate ==
    /\ pc = "idle"
    /\ IF Validates(normalized.v, SCHEMA)
       THEN /\ pc' = "returned"
            /\ outcome' = Returned(normalized.v)
            /\ exc' = exc
       ELSE /\ pc' = "except_validation"
            /\ exc' = Error("ValidationError", attempt)
            /\ outcome' = outcome
    /\ UNCHANGED <<view_vars, max_retries, attempt, last_error, local_vars,
                   ghost_vars>>

NextValidate == Validate

SpecValidate == InitValidate /\ [][NextValidate]_vars

\* ------------------------------------------------------------------------
\* clean_invalid_json_chars alone: line 133 on responses that are strict JSON
\* ------------------------------------------------------------------------

\* the longest string value of the strict JSON documents of the model
MaxWord == 3

RECURSIVE Words(_)
\* the texts of at most n characters over x, backtick and space
Words(n) ==
    IF n = 0 THEN {""}
    ELSE Words(n - 1) \cup {w \o c : w \in Words(n - 1), c \in {"x", BT, " "}}

\* a string value that makes a document long enough to pass line 130
Padding == PyStr(Rep("p", MinContentLen))

\* strict JSON: json.dumps of an object or an array holding the string w
StrictTexts ==
    {Dumps(PyDict(<< <<"a", PyStr(w)>>, <<"b", Padding>> >>), TRUE) : w \in Words(MaxWord)}
        \cup {Dumps(PyList(<<PyStr(w), Padding>>), TRUE) : w \in Words(MaxWord)}

InitClean ==
    /\ Idle
    /\ content \in {Bound(s) : s \in StrictTexts}
    /\ clean_content = Unbound
    /\ parsed = Unbound
    /\ normalized = Unbound

\* line 133 has run
Cleaned == clean_content.bound \/ exc # NoError

\* line 133: clean_content = clean_invalid_json_chars(content)
Clean ==
    /\ ~Cleaned
    /\ \E rep \in {RepairResults[i] : i \in 1..Len(RepairResults)} :
       \E r \in {clean_invalid_json_chars(content.v, rep)} :
          IF r.ok
          THEN clean_content' = Bound(r.v) /\ exc' = exc
          ELSE clean_content' = clean_content /\ exc' = Error(r.err, attempt)
    /\ UNCHANGED <<view_vars, pc, max_retries, attempt, last_error, content,
                   parsed, normalized, outcome, ghost_vars>>

NextClean == Clean

SpecClean == InitClean /\ [][NextClean]_vars

\* ------------------------------------------------------------------------
\* sanitize_text alone: lines 193-196 over a dict that holds one value
\* ------------------------------------------------------------------------

\* the most pieces a text of the model is made of
MaxPieces == 2

\* text without markup, elements of the allow-list, elements outside it
Pieces ==
    {"x", "1 < 2", "a > b", "R&D", "<b>y</b>", "<em>e</em>", "<BR>",
     "<script>z</script>", "<H4>t</H4>", "<div>d</div>"}

RECURSIVE Markups(_)
\* the texts made of at most n pieces
Markups(n) ==
    IF n = 0 THEN {""}
    ELSE Markups(n - 1) \cup {t \o piece : t \in Markups(n - 1), piece \in Pieces}

\* the values sanitize_text is given: text, and values that are no text
SanitizeInputs ==
    {PyStr(t) : t \in Markups(MaxPieces)}
        \cup {PyList(<<PyStr(t)>>) : t \in Markups(MaxPieces)}
        \cup {PyDict(<< <<"k", PyStr(t)>> >>) : t \in Markups(MaxPieces)}
        \cup {PyInt(30), PyBool(TRUE), PyNone}

InitSanitize ==
    /\ vpc = "idle"
    /\ data \in {PyDict(<< <<"value", v>> >>) : v \in SanitizeInputs}
    /\ rows = <<>>
    /\ pc = "idle"
    /\ max_retries = 0
    /\ attempt = 0
    /\ last_error = NoError
    /\ content = Unbound
    /\ clean_content = Unbound
    /\ parsed = Unbound
    /\ normalized = Unbound
    /\ exc = NoError
    /\ outcome = NoOutcome
    /\ calls = 0
    /\ sleeps = <<>>
    /\ failures = <<>>
    /\ assigned = {}

\* lines 193-196: sanitized_data = {key: sanitize_text(value) ...}
Sanitize ==
    /\ rows = <<>>
    /\ rows' = <<PyDict(Sanitized(data.pairs))>>
    /\ UNCHANGED <<vpc, data, pc, max_retries, attempt, last_error, local_vars,
                   exc, outcome, ghost_vars>>

NextSanitize == Sanitize

SpecSanitize == InitSanitize /\ [][NextSanitize]_vars

\* ------------------------------------------------------------------------
\* clean_invalid_json_chars alone: line 133 on strict JSON inside a fence
\* ------------------------------------------------------------------------

\* doc inside a fence with the json label, and inside a fence without label
JsonFenced(doc) == JSONFENCE \o "\n" \o doc \o "\n" \o FENCE
PlainFenced(doc) == FENCE \o "\n" \o doc \o "\n" \o FENCE

InitFences ==
    /\ Idle
    /\ content \in {Bound(JsonFenced(d)) : d \in StrictTexts}
                       \cup {Bound(PlainFenced(d)) : d \in StrictTexts}
    /\ clean_content = Unbound
    /\ parsed = Unbound
    /\ normalized = Unbound

SpecFences == InitFences /\ [][NextClean]_vars

\* ------------------------------------------------------------------------
\* Properties
\* ------------------------------------------------------------------------

\* value v is a string whose length lies within the bounds SCHEMA gives field f
InRange(v, f) == v.t = "str" /\ Len(v.s) >= MinLen(f) /\ Len(v.s) <= MaxLen(f)

\* rec has exactly the ten canonical keys, every value within its bounds
Conforms(rec) ==
    /\ rec.t = "dict"
    /\ Len(rec.pairs) = Len(required_fields)
    /\ DictKeys(rec.pairs) = CanonicalFields
    /\ \A i \in 1..Len(rec.pairs) : InRange(rec.pairs[i][2], rec.pairs[i][1])

\* C1: whatever the model answered, a record that generate_lesson_plan
\* returns has exactly the ten canonical keys and every value is a string
\* whose length lies within [minLength, maxLength] of its field.
C1_ReturnedRecordConforms == outcome.kind = "return" => Conforms(outcome.v)

\* C1 witness: a record is returned after an earlier attempt failed
C1_ReturnedAfterFailure == outcome.kind = "return" /\ failures # <<>>

\* C2: for max_retries >= 1, when generate_lesson_plan ends without a
\* record it has invoked the model exactly max_retries times and the error
\* it raises is GenerationExhausted.
C2_ExhaustsAfterMaxRetries ==
    (outcome.kind = "raise" /\ max_retries >= 1)
        => (calls = max_retries /\ outcome.err = "GenerationExhausted")

\* C3: when the first attempt that passes validation is attempt k (the loop
\* variable is k - 1), the model has been invoked exactly k times, exactly
\* k - 1 backoff sleeps happened, and none follows the return.
C3_EarlySuccess ==
    outcome.kind = "return"
        => (calls = attempt + 1 /\ Len(sleeps) = attempt /\ Len(failures) = attempt)

\* C3 witness: the second attempt returns a record after one sleep of 1 s
C3_SecondAttemptReturns ==
    outcome.kind = "return" /\ attempt = 1 /\ calls = 2 /\ sleeps = <<1>>

\* C4: whatever an attempt raises, the only error generate_lesson_plan
\* lets its caller see is GenerationExhausted.
C4_OnlyGenerationExhausted ==
    outcome.kind = "raise" => outcome.err = "GenerationExhausted"

\* C5: when all attempts failed, the cause chained to GenerationExhausted is
\* the failure the last attempt (loop variable max_retries - 1) recorded.
C5_CauseIsLastFailure ==
    (outcome.kind = "raise" /\ outcome.err = "GenerationExhausted" /\ max_retries >= 1)
        => /\ Len(failures) = max_retries
           /\ outcome.cause = failures[max_retries]
           /\ outcome.cause.attempt = max_retries - 1

\* C5 witness: exhaustion after attempts that failed in different ways
C5_ExhaustedAfterDifferentFailures ==
    /\ outcome.kind = "raise"
    /\ outcome.err = "GenerationExhausted"
    /\ Len(failures) >= 2
    /\ failures[1].kind # failures[Len(failures)].kind

\* C6: on every mapping normalize_ai_response does not raise and returns
\* exactly the ten canonical keys with string values; on the empty mapping
\* all ten values are the empty string.
C6_NormalizerTotal ==
    (parsed.bound /\ parsed.v.t = "dict" /\ Normalized)
        => /\ exc = NoError
           /\ normalized.bound
           /\ normalized.v.t = "dict"
           /\ Len(normalized.v.pairs) = Len(required_fields)
           /\ DictKeys(normalized.v.pairs) = CanonicalFields
           /\ \A i \in 1..Len(normalized.v.pairs) :
                 /\ normalized.v.pairs[i][2].t = "str"
                 /\ parsed.v.pairs = <<>> => normalized.v.pairs[i][2].s = ""

\* C6 witness: a mapping with an unrecognized key and an array value has
\* been normalized
C6_NormalizedMixedMapping ==
    /\ normalized.bound
    /\ parsed.v.t = "dict"
    /\ "notes" \in DictKeys(parsed.v.pairs)
    /\ \E i \in 1..Len(parsed.v.pairs) : parsed.v.pairs[i][2].t = "list"

\* every field of rec other than f is within its bounds
OthersInRange(rec, f) ==
    \A g \in CanonicalFields \ {f} : InRange(DictGet(rec.pairs, g), g)

\* C7: for each field, a record whose value has length exactly minLength or
\* exactly maxLength (the other fields in range) passes validation, and one
\* with length minLength - 1 or maxLength + 1 fails it.
C7_InclusiveBounds ==
    (normalized.bound /\ pc # "idle")
        => \A f \in CanonicalFields :
              /\ (/\ Len(DictGet(normalized.v.pairs, f).s) \in {MinLen(f), MaxLen(f)}
                  /\ OthersInRange(normalized.v, f))
                     => pc = "returned"
              /\ Len(DictGet(normalized.v.pairs, f).s) \in {MinLen(f) - 1, MaxLen(f) + 1}
                     => pc = "except_validation"

\* C7 witness: a record whose lesson_development is exactly maxLength long
\* has passed validation
C7_MaxLengthPasses ==
    /\ pc = "returned"
    /\ Len(DictGet(normalized.v.pairs, "lesson_development").s)
           = MaxLen("lesson_development")

\* C8: on text that is strict JSON clean_invalid_json_chars returns text
\* that parses to the same structure as its input.
C8_StrictJsonUnchanged ==
    Cleaned => (clean_content.bound /\ Loads(clean_content.v) = Loads(content.v))

\* C9: when the JSON an attempt decoded is no mapping, normalize_ai_response
\* raises InvalidResponseShape, the attempt is handled as a failure and
\* recorded, and no record comes from it.
C9_NonMappingFails ==
    ("parsed" \in assigned /\ parsed.v.t # "dict")
        => /\ exc.kind = "InvalidResponseShape"
           /\ "normalized" \notin assigned
           /\ outcome.kind # "return"
           /\ \/ pc = "except_other"
              \/ failures # <<>> /\ failures[Len(failures)] = exc

\* C9 witness: an attempt decoded a boolean and has been recorded as failed
C9_BooleanRejected ==
    /\ "parsed" \in assigned
    /\ parsed.v.t = "bool"
    /\ pc = "after"

\* C10: a LessonPlan row exists only after generate_lesson_plan returned a
\* validated record; when it raised, the view has created no row.
C10_RowOnlyAfterReturn ==
    /\ rows # <<>> => (outcome.kind = "return" /\ Conforms(outcome.v) /\ vpc = "created")
    /\ outcome.kind = "raise" => rows = <<>>

\* C10 witness: the view has handled GenerationExhausted and no row exists
C10_ViewFailedWithoutRow ==
    /\ vpc = "failed"
    /\ outcome.kind = "raise"
    /\ outcome.err = "GenerationExhausted"
    /\ rows = <<>>

\* a tag whose name is outside ALLOWED_TAGS opens and ends in text s
HasDisallowedTag(s) ==
    \E p \in 1..Len(s) :
       /\ TagNameStart(s, p) # 0
       /\ IndexOf(s, ">", p) # 0
       /\ TagName(s, TagNameStart(s, p)) \notin ALLOWED_TAGS

\* C11: for every input value, text or not, the text sanitize_text returns
\* holds no tag outside the allow-list.
C11_NoDisallowedMarkup ==
    rows # <<>> => ~HasDisallowedTag(rows[1].pairs[1][2].s)

\* C12: with attempts numbered from 1, the sleep that follows the failure
\* of attempt n lasts 2^n seconds.
C12_SleepIsTwoToTheAttempt ==
    \A n \in 1..Len(sleeps) : sleeps[n] = Pow2(n)

\* C13: a failed attempt of any kind that is not the last is followed by
\* exactly one backoff sleep and then the next attempt; the failure of the
\* last attempt leads to GenerationExhausted with no sleep; a successful
\* attempt returns at once; the model is called only while no sleep is due.
C13_RetryTransitions ==
    [][/\ pc \in {"except_json", "except_validation", "except_other"}
            => (pc' = "after" /\ sleeps' = sleeps /\ attempt' = attempt)
       /\ (pc = "after" /\ attempt < max_retries - 1)
            => (pc' = "loop" /\ attempt' = attempt + 1 /\ Len(sleeps') = Len(sleeps) + 1)
       /\ (pc = "after" /\ attempt >= max_retries - 1)
            => (pc' = "loop" /\ attempt' >= max_retries /\ sleeps' = sleeps)
       /\ pc = "loop"
            => (pc' = (IF attempt < max_retries THEN "try" ELSE "exhausted")
                    /\ sleeps' = sleeps)
       /\ pc = "exhausted"
            => (outcome'.kind = "raise" /\ outcome'.err = "GenerationExhausted"
                    /\ sleeps' = sleeps)
       /\ pc = "try"
            => (pc' \in {"returned", "except_json", "except_validation", "except_other"}
                    /\ sleeps' = sleeps)
       /\ calls' # calls => (pc = "try" /\ calls' = calls + 1)]_vars

\* the model has answered the current attempt and the try body has ended
Answered ==
    /\ "content" \in assigned
    /\ pc \in {"returned", "except_json", "except_validation", "except_other"}

\* C14: an attempt is rejected as InsufficientContent, with nothing run on
\* the text, exactly when the text the model returned is empty or shorter
\* than 50 characters; any text of 50 or more characters goes on to
\* clean_invalid_json_chars.
C14_GateIffShort ==
    Answered
        => /\ (pc # "returned" /\ exc.kind = "InsufficientContent")
                  <=> Len(content.v) < MinContentLen
           /\ (pc # "returned" /\ exc.kind = "InsufficientContent")
                  => assigned = {"content"}

\* C15: only the first pattern that matches is applied: from a fenced block
\* of strict JSON that holds no fence itself, with or without the json
\* label, clean_invalid_json_chars returns the block as it is, inline
\* backticks inside it included.
C15_OnlyFirstPattern ==
    Cleaned
        => \A d \in StrictTexts :
              (IndexOf(d, FENCE, 1) = 0 /\ content.v \in {JsonFenced(d), PlainFenced(d)})
                  => clean_content = Bound(d)

\* C15 witness: a block with the json label whose value holds an inline
\* backtick span has been unwrapped and the backticks are still there
C15_FenceUnwrappedTicksKept ==
    /\ Cleaned
    /\ content.v = JsonFenced(Dumps(PyDict(<< <<"a", PyStr(BT \o "x" \o BT)>>,
                                               <<"b", Padding>> >>), TRUE))
    /\ clean_content.bound
    /\ Loads(clean_content.v).v.pairs[1][2] = PyStr(BT \o "x" \o BT)

\* the canonical fields the keys of the decoded mapping doc supply under
\* key_map
SuppliedFields(doc) ==
    {key_map[k] : k \in {Lower(doc.pairs[i][1]) : i \in 1..Len(doc.pairs)}
                            \cap DOMAIN key_map}

\* C16: normalize_ai_response does not fail on a mapping that lacks a
\* canonical field, it sets the field to ""; the attempt then fails at
\* validate, so a record is returned only when the response of that attempt
\* supplied all ten canonical fields.
C16_MissingFieldFailsValidation ==
    /\ (Answered /\ "parsed" \in assigned /\ parsed.v.t = "dict")
          => /\ "normalized" \in assigned
             /\ \A f \in CanonicalFields \ SuppliedFields(parsed.v) :
                   /\ DictGet(normalized.v.pairs, f) = PyStr("")
                   /\ pc = "except_validation"
                   /\ exc.kind = "ValidationError"
    /\ outcome.kind = "return"
          => SuppliedFields(parsed.v) = CanonicalFields

\* C16 witness: the response without homework was normalized and has failed
\* validation
C16_MissingHomeworkRejected ==
    /\ Answered
    /\ parsed = Bound(MissingDoc)
    /\ "normalized" \in assigned
    /\ DictGet(normalized.v.pairs, "homework") = PyStr("")
    /\ pc = "except_validation"

\* C17: a mapped key whose value is an array or an object gives the compact
\* JSON text of the value, nothing after "," or ":": the array of book and
\* chalk under a materials key gives the 16 characters ["book","chalk"].
C17_NestedValueCompact ==
    (normalized.bound /\ Len(parsed.v.pairs) = 1 /\ parsed.v.pairs[1][1] = "MATERIALS")
        => LET field == DictGet(normalized.v.pairs, "teaching_materials")
           IN  /\ parsed.v.pairs[1][2] = PyList(<<PyStr("book"), PyStr("chalk")>>)
                     => (field = PyStr("[\"book\",\"chalk\"]") /\ Len(field.s) = 16)
               /\ parsed.v.pairs[1][2] = PyDict(<< <<"warmup", PyStr("Think-Pair-Share")>> >>)
                     => field = PyStr("{\"warmup\":\"Think-Pair-Share\"}")

\* every item of the decoded mapping doc whose key key_map knows has a value
\* that is within the bounds of its field once flattened
RecognizedInRange(doc) ==
    \A i \in 1..Len(doc.pairs) :
       Lower(doc.pairs[i][1]) \in DOMAIN key_map
           => InRange(PyStr(flatten_value(doc.pairs[i][2])),
                      key_map[Lower(doc.pairs[i][1])])

\* C18: keys the synonym table does not know are dropped and are no error:
\* an attempt whose decoded mapping supplies all ten canonical fields with
\* values in range returns a record, whatever other keys the mapping holds,
\* and the record has the ten canonical keys only.
C18_UnknownKeysDropped ==
    (/\ Answered
     /\ "parsed" \in assigned
     /\ parsed.v.t = "dict"
     /\ SuppliedFields(parsed.v) = CanonicalFields
     /\ RecognizedInRange(parsed.v))
        => /\ pc = "returned"
           /\ outcome.kind = "return"
           /\ DictKeys(outcome.v.pairs) = CanonicalFields

\* C18 witness: the response with the unknown key notes has been returned as
\* a record without that key
C18_NotesDropped ==
    /\ parsed = Bound(ExtraDoc)
    /\ "notes" \in DictKeys(parsed.v.pairs)
    /\ pc = "returned"
    /\ outcome.kind = "return"
    /\ "notes" \notin DictKeys(outcome.v.pairs)

\* C19: every call of generate_lesson_plan ends, and it ends either by
\* returning a validated record or by raising GenerationExhausted.
C19_EndsDoneOrExhausted ==
    (pc = "loop")
        ~> (\/ outcome.kind = "return"
            \/ (outcome.kind = "raise" /\ outcome.err = "GenerationExhausted"))

\* C20: the model is never invoked more often than max_retries says; with
\* max_retries <= 0 it is not invoked at all, nothing sleeps, and
\* GenerationExhausted is raised at once with no cause.
C20_CallsWithinMaxRetries ==
    /\ max_retries > 0 => calls <= max_retries
    /\ (max_retries <= 0 /\ vpc = "direct")
          => /\ calls = 0
             /\ sleeps = <<>>
             /\ pc \in {"loop", "exhausted", "raised"}
             /\ pc = "raised"
                   => /\ outcome.err = "GenerationExhausted"
                      /\ outcome.cause = NoError

\* C20 witness: a call with a negative max_retries has raised
\* GenerationExhausted without a call of the model
C20_NegativeRetriesExhausted ==
    /\ max_retries < 0
    /\ pc = "raised"
    /\ outcome.err = "GenerationExhausted"
    /\ calls = 0

\* C21: the record generate_lesson_plan returns is made from the response
\* of the attempt that returned alone: every local was assigned by that
\* attempt and holds what lines 130-142 compute from that response, and the
\* record is the normalized of that attempt; nothing of an earlier attempt
\* is in it.
C21_RecordFromReturningAttempt ==
    outcome.kind = "return"
        => /\ assigned = {"content", "clean_content", "parsed", "normalized"}
           /\ \E i \in 1..Len(Responses), r \in 1..Len(RepairResults) :
                 TryTable[i][r] = [content |-> content.v,
                                   exc |-> "none",
                                   clean_content |-> clean_content,
                                   parsed |-> parsed,
                                   normalized |-> normalized]
           /\ outcome.v = normalized.v

\* C21 witness: a record is returned by the second attempt after the first
\* attempt had decoded and normalized a mapping that failed validation
C21_ReturnedAfterRejectedMapping ==
    /\ outcome.kind = "return"
    /\ attempt = 1
    /\ failures # <<>>
    /\ failures[1].kind = "ValidationError"
    /\ outcome.v = normalized.v

\* the position of the last item of the decoded mapping doc whose key
\* key_map takes to canonical field f
LastFor(doc, f) ==
    Last({i \in 1..Len(doc.pairs) :
             /\ Lower(doc.pairs[i][1]) \in DOMAIN key_map
             /\ key_map[Lower(doc.pairs[i][1])] = f})

\* C22: when several keys of the decoded mapping map to one canonical field,
\* the field holds the flattened value of the key that comes last; earlier
\* values are overwritten and nothing is raised.
C22_LastKeyWins ==
    (Normalized /\ parsed.v.t = "dict")
        => /\ normalized.bound
           /\ exc = NoError
           /\ \A f \in SuppliedFields(parsed.v) :
                 DictGet(normalized.v.pairs, f)
                     = PyStr(flatten_value(parsed.v.pairs[LastFor(parsed.v, f)][2]))

\* C22 witness: objectives then Objective, with different values, has been
\* normalized and objectives holds the value of Objective
C22_SecondSynonymWon ==
    /\ normalized.bound
    /\ parsed.v.pairs = << <<"objectives", PyInt(7)>>, <<"Objective", PyBool(TRUE)>> >>
    /\ DictGet(normalized.v.pairs, "objectives") = PyStr("True")

\* C23: normalize_ai_response applied to its own result returns that
\* result: the second normalization of the view leaves the record as it is.
C23_NormalizeIdempotent ==
    outcome # NoOutcome => outcome = Returned(normalized.v)

\* C23 witness: a mapping with a synonym key in upper case and an array
\* value has been normalized twice
C23_SynonymDocTwice ==
    /\ parsed = Bound(SynonymDoc)
    /\ normalized.bound
    /\ normalized.v # parsed.v
    /\ outcome.kind = "return"

====
